---- MODULE Spec2Model ----
(***************************************************************************)
(* Model of w6_mem: IAllocator, UniquePtr<T>, UniquePtr<T[]>, make_unique. *)
(* The named UniquePtr variables of a caller are the slots 1..NumSlots;    *)
(* slot 0 is the temporary a move assignment constructs and destroys.      *)
(* Pointers are integers, 0 is nullptr.                                    *)
(***************************************************************************)
EXTENDS Integers, Sequences, FiniteSets, TLC

\* ---------------------------------------------------------------- bounds
NumSlots == 2
NumAllocs == 2
NumBlocks == 2
MaxLen == 2
SizeBits == 8
NumAdapters == 2

\* ------------------------------------------------------- program constants
\* offset of the SecondBase subobject in a DerivedClass
SecondBaseOffset == 16
\* distance between two blocks an allocator hands out
BlockStride == 64

\* the value of a default-constructed TestClass
DefaultValue == 0
\* the constructor arguments the tests use
Values == {24, 42}
\* the argument of the tests that only follow the lifetime of the object
LifetimeArg == 42
\* the one allocator of a test: DefaultAllocator allocator;
TestAllocator == 1

Slots == 1..NumSlots
Tmp == 0
Allocs == 1..NumAllocs
Addrs == {BlockStride * k : k \in 1..NumBlocks}
SizeModulus == 2 ^ SizeBits

\* "D" is DerivedClass, "B1" BaseClass, "B2" SecondBase, "A" an array T[]
ScalarTypes == {"D", "B1", "B2"}
\* the scalar types make_unique is instantiated with
MakeTypes == {"D"}
ArrayType == "A"
Types == ScalarTypes \cup {ArrayType}

\* the element types of StlAllocator: "I" is int, "N" the node of a
\* std::list<int> the container rebinds to
StlTypes == {"I", "N"}

SizeOf(t) == CASE t = "D" -> 32 [] t = "B1" -> 16 [] t = "B2" -> 16
               [] t = "N" -> 24 [] OTHER -> 4
AlignOf(t) == CASE t = "D" -> 8 [] t = "B1" -> 8 [] t = "B2" -> 8
                [] t = "N" -> 8 [] OTHER -> 4

\* std::is_convertible_v<U*, T*> for the class hierarchy of the tests
IsConvertible(u, t) == u = "D" /\ t \in {"B1", "B2"}

\* static_cast<T*>(U*): null stays null, a second base is at an offset
StaticCast(u, t, p) ==
    IF p = 0 THEN 0
    ELSE IF u = "D" /\ t = "B2" THEN p + SecondBaseOffset
    ELSE p

\* the block an object pointer points into
BlockOf(p) == (p \div BlockStride) * BlockStride

VARIABLES slots, heap, objs, log, ub, last, pre, preobjs, preheap, ret, adapters,
          origin

vars == <<slots, heap, objs, log, ub, last, pre, preobjs, preheap, ret, adapters,
          origin>>

\* ------------------------------------------------------------ UniquePtr
\* a variable that holds no UniquePtr object (before construction, after
\* destruction)
Dead == [ty |-> "none", m_allocator |-> 0, m_ptr |-> 0,
         m_allocated_memory |-> 0, m_length |-> 0]

\* UniquePtr() / UniquePtr(nullptr_t)
DefaultCtor(t) == [ty |-> t, m_allocator |-> 0, m_ptr |-> 0,
                   m_allocated_memory |-> 0, m_length |-> 0]

\* UniquePtr(allocator, p, allocated_memory [, length])
RawCtor(t, a, p, mem, len) == [ty |-> t, m_allocator |-> a, m_ptr |-> p,
                               m_allocated_memory |-> mem, m_length |-> len]

Live(u) == u.ty # "none"
\* explicit operator bool
Bool(u) == u.m_ptr # 0
\* get()
Get(u) == u.m_ptr
\* length()
Length(u) == u.m_length

\* ---------------------------------------------------------------- world
\* w = [heap, objs, log, ub]: what allocators and objects an operation acts on
Event(e, a, p, n, al, t) == [ev |-> e, a |-> a, p |-> p, n |-> n, al |-> al, t |-> t]

\* IAllocator::allocate(size, alignment) returning res (0 on failure)
Allocate(w, a, size, align, res) ==
    [w EXCEPT !.heap = IF res = 0 THEN @ ELSE [@ EXCEPT ![res] = a],
              !.log = Append(@, Event("allocate", a, res, size, align, "none"))]

\* IAllocator::deallocate(ptr): a block of this allocator is released, null
\* is a no-op, anything else is undefined behaviour
\* (the event records which case the call was: "null", "own", "foreign")
Deallocate(w, a, p) ==
    LET kind == IF p = 0 THEN "null"
                ELSE IF p \in Addrs /\ w.heap[p] = a THEN "own" ELSE "foreign"
        w1 == [w EXCEPT !.log = Append(@, Event("deallocate", a, p, 0, 0, kind))]
    IN IF kind = "null" THEN w1
       ELSE IF kind = "own"
            THEN [w1 EXCEPT !.heap = [@ EXCEPT ![p] = 0]]
            ELSE [w1 EXCEPT !.ub = TRUE]

\* new (memory) T(args...) / one element of new (memory) T[length]():
\* the next object of the block is constructed with the value val
ConstructAt(w, mem, t, val) ==
    [w EXCEPT !.objs = [@ EXCEPT ![mem] = [dyn |-> t, n |-> @.n + 1,
                                           v |-> Append(@.v, val)]],
              !.log = Append(@, Event("construct", 0, mem, val, 0, t))]

\* new (memory) T[length](): n value-initialised elements
RECURSIVE ConstructN(_, _, _, _)
ConstructN(w, mem, t, n) ==
    IF n = 0 THEN w
    ELSE ConstructN(ConstructAt(w, mem, t, DefaultValue), mem, t, n - 1)

\* new (memory) T[n]() in a block of size bytes: when the n elements do not
\* fit, the elements that fit are written and the next write, behind the end
\* of the block, is undefined behaviour
PlacementNewArray(w, mem, t, n, size) ==
    IF n * SizeOf(t) <= size THEN ConstructN(w, mem, t, n)
    ELSE [ConstructN(w, mem, t, size \div SizeOf(t)) EXCEPT !.ub = TRUE]

\* std::destroy_at(p): the destructor of the object p points into, by its
\* dynamic type (the destructors of the test classes are virtual); the event
\* records the block, the address p and the dynamic type
DestroyAt(w, p) ==
    LET b == BlockOf(p)
    IN IF b \in Addrs /\ w.objs[b].n > 0
       THEN [w EXCEPT !.objs = [@ EXCEPT ![b] =
                                   IF @.n = 1 THEN [dyn |-> "none", n |-> 0, v |-> <<>>]
                                   ELSE [@ EXCEPT !.n = @ - 1]],
                      !.log = Append(@, Event("destroy", 0, b, p, 0, w.objs[b].dyn))]
       ELSE [w EXCEPT !.ub = TRUE,
                      !.log = Append(@, Event("destroy", 0, b, p, 0, "none"))]

\* std::destroy(first, first + n): every element from first on, in order
RECURSIVE DestroyN(_, _, _)
DestroyN(w, p, n) ==
    IF n = 0 THEN w
    ELSE DestroyN(DestroyAt(w, p), p + SizeOf(ArrayType), n - 1)

\* a destructor that destroys the objects and keeps the memory
Dtor_NoDeallocate(w, u) ==
    IF u.m_ptr # 0 /\ u.m_allocator # 0
    THEN IF u.ty = ArrayType
         THEN DestroyN(w, u.m_ptr, u.m_length)
         ELSE DestroyAt(w, u.m_ptr)
    ELSE w

\* a destructor that returns the memory before it destroys the object
Dtor_DeallocateFirst(w, u) ==
    IF u.m_ptr # 0 /\ u.m_allocator # 0
    THEN IF u.ty = ArrayType
         THEN DestroyN(Deallocate(w, u.m_allocator, u.m_allocated_memory),
                       u.m_ptr, u.m_length)
         ELSE DestroyAt(Deallocate(w, u.m_allocator, u.m_allocated_memory), u.m_ptr)
    ELSE w

\* an array destructor written like the scalar one: destroy_at(m_ptr)
Dtor_ArrayAsScalar(w, u) ==
    IF u.m_ptr # 0 /\ u.m_allocator # 0
    THEN Deallocate(DestroyAt(w, u.m_ptr), u.m_allocator, u.m_allocated_memory)
    ELSE w

\* ~UniquePtr(), scalar and array
Dtor(w, u) ==
    IF u.m_ptr # 0 /\ u.m_allocator # 0
    THEN IF u.ty = ArrayType
         THEN Deallocate(DestroyN(w, u.m_ptr, u.m_length), u.m_allocator,
                         u.m_allocated_memory)
         ELSE Deallocate(DestroyAt(w, u.m_ptr), u.m_allocator, u.m_allocated_memory)
    ELSE w

\* ------------------------------------------------ operations on the store
\* a swap that forgets m_allocated_memory
Swap_NoMemory(st, i, j) ==
    [st EXCEPT ![i] = [@ EXCEPT !.m_allocator = st[j].m_allocator,
                                !.m_ptr = st[j].m_ptr,
                                !.m_length = st[j].m_length],
               ![j] = [@ EXCEPT !.m_allocator = st[i].m_allocator,
                                !.m_ptr = st[i].m_ptr,
                                !.m_length = st[i].m_length]]

\* a swap that forgets m_allocator
Swap_NoAllocator(st, i, j) ==
    [st EXCEPT ![i] = [@ EXCEPT !.m_ptr = st[j].m_ptr,
                                !.m_allocated_memory = st[j].m_allocated_memory,
                                !.m_length = st[j].m_length],
               ![j] = [@ EXCEPT !.m_ptr = st[i].m_ptr,
                                !.m_allocated_memory = st[i].m_allocated_memory,
                                !.m_length = st[i].m_length]]

\* a swap that forgets m_length
Swap_NoLength(st, i, j) ==
    [st EXCEPT ![i] = [@ EXCEPT !.m_allocator = st[j].m_allocator,
                                !.m_ptr = st[j].m_ptr,
                                !.m_allocated_memory = st[j].m_allocated_memory],
               ![j] = [@ EXCEPT !.m_allocator = st[i].m_allocator,
                                !.m_ptr = st[i].m_ptr,
                                !.m_allocated_memory = st[i].m_allocated_memory]]

\* a swap that exchanges m_ptr only
Swap_PtrOnly(st, i, j) ==
    [st EXCEPT ![i] = [@ EXCEPT !.m_ptr = st[j].m_ptr],
               ![j] = [@ EXCEPT !.m_ptr = st[i].m_ptr]]

\* st maps Tmp and the slots to UniquePtr objects
\* UniquePtr::swap(other), scalar: three std::swap; array: also m_length
Swap(st, i, j) ==
    [st EXCEPT ![i] = [@ EXCEPT !.m_allocator = st[j].m_allocator,
                                !.m_ptr = st[j].m_ptr,
                                !.m_allocated_memory = st[j].m_allocated_memory,
                                !.m_length = st[j].m_length],
               ![j] = [@ EXCEPT !.m_allocator = st[i].m_allocator,
                                !.m_ptr = st[i].m_ptr,
                                !.m_allocated_memory = st[i].m_allocated_memory,
                                !.m_length = st[i].m_length]]

\* swap(lhs, rhs), the free function: lhs.swap(rhs)
FreeSwap(st, i, j) == Swap(st, i, j)

\* a move constructor that copies the members and leaves the source alone
MoveCtor_NoReset(st, i, j) ==
    [st EXCEPT ![i] = RawCtor(st[j].ty, st[j].m_allocator, st[j].m_ptr,
                              st[j].m_allocated_memory, st[j].m_length)]

\* a move constructor that resets only m_ptr and m_length of the source
MoveCtor_KeepsMemory(st, i, j) ==
    [st EXCEPT ![i] = RawCtor(st[j].ty, st[j].m_allocator, st[j].m_ptr,
                              st[j].m_allocated_memory, st[j].m_length),
               ![j] = [@ EXCEPT !.m_ptr = 0, !.m_length = 0]]

\* an array move constructor that does not take m_length
MoveCtor_NoLength(st, i, j) ==
    IF st[j].ty = ArrayType
    THEN [st EXCEPT ![i] = RawCtor(st[j].ty, st[j].m_allocator, st[j].m_ptr,
                                   st[j].m_allocated_memory, 0),
                    ![j] = DefaultCtor(st[j].ty)]
    ELSE Swap([st EXCEPT ![i] = DefaultCtor(st[j].ty)], i, j)

\* UniquePtr(UniquePtr&& other) constructing st[i] from st[j]
\* scalar: null members, then swap(other); array: copy members, null other
MoveCtor(st, i, j) ==
    IF st[j].ty = ArrayType
    THEN [st EXCEPT ![i] = RawCtor(st[j].ty, st[j].m_allocator, st[j].m_ptr,
                                   st[j].m_allocated_memory, st[j].m_length),
                    ![j] = DefaultCtor(st[j].ty)]
    ELSE Swap([st EXCEPT ![i] = DefaultCtor(st[j].ty)], i, j)

\* a converting constructor that leaves the source alone
\* a converting constructor that records the converted pointer as the
\* allocated memory
ConvertCtor_CastMemory(st, i, j, t) ==
    [st EXCEPT ![i] = RawCtor(t, st[j].m_allocator,
                              StaticCast(st[j].ty, t, st[j].m_ptr),
                              StaticCast(st[j].ty, t, st[j].m_allocated_memory), 0),
               ![j] = DefaultCtor(st[j].ty)]

\* a converting constructor that leaves the source as it was
ConvertCtor_NoReset(st, i, j, t) ==
    [st EXCEPT ![i] = RawCtor(t, st[j].m_allocator,
                              StaticCast(st[j].ty, t, st[j].m_ptr),
                              st[j].m_allocated_memory, 0)]

\* template <typename U> UniquePtr(UniquePtr<U>&& other), to UniquePtr<t>
ConvertCtor(st, i, j, t) ==
    [st EXCEPT ![i] = RawCtor(t, st[j].m_allocator,
                              StaticCast(st[j].ty, t, st[j].m_ptr),
                              st[j].m_allocated_memory, 0),
               ![j] = DefaultCtor(st[j].ty)]

\* a move assignment that releases its own resource, then takes the members
\* of other and resets other
MoveAssignOp_ReleaseFirst(st, w, i, j) ==
    LET w1 == Dtor(w, st[i])
        st1 == [st EXCEPT ![i] = RawCtor(st[j].ty, st[j].m_allocator, st[j].m_ptr,
                                         st[j].m_allocated_memory, st[j].m_length)]
    IN [st |-> [st1 EXCEPT ![j] = DefaultCtor(st[j].ty)], w |-> w1]

\* operator=(UniquePtr&& other): UniquePtr(std::move(other)).swap(*this),
\* the temporary is destroyed at the end of the full expression.
\* Returns the store and the world.
MoveAssignOp(st, w, i, j) ==
    LET st1 == MoveCtor(st, Tmp, j)
        st2 == Swap(st1, Tmp, i)
        w1 == Dtor(w, st2[Tmp])
    IN [st |-> [st2 EXCEPT ![Tmp] = Dead], w |-> w1]

\* ----------------------------------------------------------- make_unique
\* a make_unique that constructs without looking at what allocate returned
MakeUniqueScalarOp_NoFailCheck(w, t, a, val, res) ==
    IF a = 0 THEN [u |-> DefaultCtor(t), w |-> w]
    ELSE LET w1 == Allocate(w, a, SizeOf(t), AlignOf(t), res)
         IN [u |-> RawCtor(t, a, res, res, 0),
             w |-> IF res = 0
                   THEN [w1 EXCEPT !.log = Append(@, Event("construct", 0, res, 0, 0, t))]
                   ELSE ConstructAt(w1, res, t, val)]

\* a make_unique that passes (alignment, size) in the order of aligned_alloc
MakeUniqueScalarOp_SwappedArgs(w, t, a, val, res) ==
    IF a = 0 THEN [u |-> DefaultCtor(t), w |-> w]
    ELSE LET w1 == Allocate(w, a, AlignOf(t), SizeOf(t), res)
         IN IF res = 0 THEN [u |-> DefaultCtor(t), w |-> w1]
            ELSE [u |-> RawCtor(t, a, res, res, 0),
                  w |-> ConstructAt(w1, res, t, val)]

\* make_unique<T>(allocator, args...): val stands for args, res is what
\* allocate returns
MakeUniqueScalarOp(w, t, a, val, res) ==
    IF a = 0 THEN [u |-> DefaultCtor(t), w |-> w]
    ELSE LET w1 == Allocate(w, a, SizeOf(t), AlignOf(t), res)
         IN IF res = 0 THEN [u |-> DefaultCtor(t), w |-> w1]
            ELSE [u |-> RawCtor(t, a, res, res, 0),
                  w |-> ConstructAt(w1, res, t, val)]

\* a make_unique that calls allocate without looking at the allocator
MakeUniqueArrayOp_NoNullCheck(w, a, length, res) ==
    LET size == (SizeOf(ArrayType) * length) % SizeModulus
        w1 == Allocate(w, a, size, AlignOf(ArrayType), res)
    IN IF res = 0 THEN [u |-> DefaultCtor(ArrayType), w |-> w1]
       ELSE [u |-> RawCtor(ArrayType, a, res, res, length),
             w |-> PlacementNewArray(w1, res, ArrayType, length, size)]

\* make_unique<T[]>(allocator, length)
MakeUniqueArrayOp(w, a, length, res) ==
    IF a = 0 THEN [u |-> DefaultCtor(ArrayType), w |-> w]
    ELSE LET size == (SizeOf(ArrayType) * length) % SizeModulus
             w1 == Allocate(w, a, size, AlignOf(ArrayType), res)
         IN IF res = 0 THEN [u |-> DefaultCtor(ArrayType), w |-> w1]
            ELSE [u |-> RawCtor(ArrayType, a, res, res, length),
                  w |-> PlacementNewArray(w1, res, ArrayType, length, size)]

\* what an access returns to the caller in a debug build: an address, or
\* nothing because an assert failed and the program was aborted
Returned(p) == [assert |-> FALSE, p |-> p]
AssertFailed == [assert |-> TRUE, p |-> 0]

\* operator*(): assert(m_ptr); return *m_ptr;
OperatorStar(u) == IF u.m_ptr = 0 THEN AssertFailed ELSE Returned(u.m_ptr)

\* operator->(): return m_ptr;
OperatorArrow(u) == Returned(u.m_ptr)

\* an operator[] that accepts the index one past the end
OperatorIndex_OffByOne(u, index) ==
    IF u.m_ptr = 0 THEN AssertFailed
    ELSE IF ~(index <= u.m_length) THEN AssertFailed
    ELSE Returned(u.m_ptr + index * SizeOf(ArrayType))

\* operator[](index), const and non-const: assert(m_ptr);
\* assert(index < m_length); return m_ptr[index];
OperatorIndex(u, index) ==
    IF u.m_ptr = 0 THEN AssertFailed
    ELSE IF ~(index < u.m_length) THEN AssertFailed
    ELSE Returned(u.m_ptr + index * SizeOf(ArrayType))

\* operator* / operator->: the object m_ptr points to, read for its value
Deref(ob, u) == ob[BlockOf(u.m_ptr)].v[1]

\* an operator[] that adds the index to the address in bytes
ElementAddr_Bytes(u, index) == u.m_ptr + index

\* operator[](index): the address of m_ptr[index]
ElementAddr(u, index) == u.m_ptr + index * SizeOf(ArrayType)

\* the element of its block that the address p of an array element denotes
ElementOf(p) == (p - BlockOf(p)) \div SizeOf(ArrayType) + 1

\* arr[index].get_value() / arr[index].set_value(val) at the address p
Load(ob, p) == ob[BlockOf(p)].v[ElementOf(p)]
Store(ob, p, val) == [ob EXCEPT ![BlockOf(p)].v[ElementOf(p)] = val]

\* BaseClass::get_counter() / SecondBase::get_counter() after reset_counter():
\* ~DerivedClass runs ~SecondBase and ~BaseClass, each counts itself
BaseCounter(l) ==
    Cardinality({k \in DOMAIN l : l[k].ev = "destroy" /\ l[k].t \in {"D", "B1"}})
SecondCounter(l) ==
    Cardinality({k \in DOMAIN l : l[k].ev = "destroy" /\ l[k].t \in {"D", "B2"}})

\* ------------------------------------------------------ DefaultAllocator
\* sizes and alignments as the tests of DefaultAllocator request them; a
\* request is valid when the alignment is a power of two and the size a
\* positive multiple of it
DefaultSizes == {1, 8, 16, 32, 64, 128}
DefaultAlignments == {1, 8, 16, 32, 64, 128}
DefaultRequests ==
    {rq \in DefaultSizes \X DefaultAlignments : rq[1] % rq[2] = 0}

\* the first address behind the memory the platform has: the last block is
\* followed by one more stride of memory
ArenaEnd == BlockStride * (NumBlocks + 2)

\* the blocks the bytes p .. p + size - 1 lie in
Span(p, size) == {q \in Addrs : p <= q /\ q < p + size}

\* an aligned_alloc that does not look at the alignment
AlignedAlloc_Unaligned(h, alignment, size) ==
    {0} \cup {p \in Addrs : /\ p + size <= ArenaEnd
                            /\ \A q \in Span(p, size) : h[q] = 0}

\* what std::aligned_alloc(alignment, size) may return: null, or an address
\* that is a multiple of alignment with size bytes free behind it
AlignedAlloc(h, alignment, size) ==
    {0} \cup {p \in Addrs : /\ p % alignment = 0
                            /\ p + size <= ArenaEnd
                            /\ \A q \in Span(p, size) : h[q] = 0}

\* DefaultAllocator::allocate(size, alignment) when aligned_alloc returns res;
\* the blocks behind the first one are marked as part of the allocation
DefaultAllocate(w, size, alignment, res) ==
    LET w1 == Allocate(w, TestAllocator, size, alignment, res)
    IN [w1 EXCEPT !.heap = [q \in Addrs |->
                               IF res # 0 /\ q \in Span(res, size) \ {res}
                               THEN 0 - res ELSE @[q]]]

\* DefaultAllocator::deallocate(ptr): std::free(ptr)
DefaultDeallocate(w, ptr) ==
    LET w1 == Deallocate(w, TestAllocator, ptr)
    IN [w1 EXCEPT !.heap = [q \in Addrs |->
                               IF ptr # 0 /\ @[q] = 0 - ptr THEN 0 ELSE @[q]]]

\* ---------------------------------------------------------- StlAllocator
\* StlAllocator<t>(IAllocator* allocator)
StlCtor(t, a) == [ty |-> t, m_allocator |-> a]

\* get_allocator()
StlGetAllocator(x) == x.m_allocator

\* a converting constructor that leaves the allocator null
StlConvertCtor_NullAllocator(t, other) == [ty |-> t, m_allocator |-> 0]

\* StlAllocator<t>(const StlAllocator<U>& other)
StlConvertCtor(t, other) == [ty |-> t, m_allocator |-> StlGetAllocator(other)]

\* an allocate that asks the allocator also for no elements
StlAllocateOp_NoZeroCheck(w, x, n, res) ==
    [p |-> res,
     w |-> Allocate(w, x.m_allocator, (n * SizeOf(x.ty)) % SizeModulus,
                    AlignOf(x.ty), res)]

\* an allocate that asks for n bytes
StlAllocateOp_CountAsSize(w, x, n, res) ==
    IF n = 0 THEN [p |-> 0, w |-> w]
    ELSE [p |-> res,
          w |-> Allocate(w, x.m_allocator, n % SizeModulus, AlignOf(x.ty), res)]

\* allocate(n): res is what the allocator returns; the pointer returned and
\* the world
StlAllocateOp(w, x, n, res) ==
    IF n = 0 THEN [p |-> 0, w |-> w]
    ELSE [p |-> res,
          w |-> Allocate(w, x.m_allocator, (n * SizeOf(x.ty)) % SizeModulus,
                         AlignOf(x.ty), res)]

\* a deallocate that does nothing for a count of 0
StlDeallocateOp_SkipsZeroCount(w, x, p, n) ==
    IF p # 0 /\ n # 0 THEN Deallocate(w, x.m_allocator, p) ELSE w

\* deallocate(p, n)
StlDeallocateOp(w, x, p, n) ==
    IF p # 0 THEN Deallocate(w, x.m_allocator, p) ELSE w

\* an operator== for an allocator that is always equal
StlEq_AlwaysEqual(x, y) == TRUE

\* operator==
StlEq(x, y) == x.m_allocator = y.m_allocator

\* operator!=
StlNe(x, y) == ~StlEq(x, y)

\* ---------------------------------------------------------------- state
World == [heap |-> heap, objs |-> objs, log |-> <<>>, ub |-> ub]

\* what allocate may return: null, or a block that is not outstanding
AllocResults == {0} \cup {p \in Addrs : heap[p] = 0}

Op(name, dst, src, a, n) == [op |-> name, dst |-> dst, src |-> src, a |-> a, n |-> n]

\* no object is constructed in any block
NoObjs == [p \in Addrs |-> [dyn |-> "none", n |-> 0, v |-> <<>>]]

\* a variable that holds no StlAllocator object
NoAdapter == [ty |-> "none", m_allocator |-> 0]
Adapters == 1..NumAdapters

\* where a StlAllocator object comes from: the pointer the first object of its
\* chain of copies and rebinds was constructed with (none for no object)
NoOrigin == 0

\* the state after an operation on UniquePtrs; after undefined behaviour
\* nothing more is said about the program
Commit(st, w, o) ==
    /\ last.op = "none"
    /\ ~ub
    /\ slots' = st
    /\ heap' = w.heap
    /\ objs' = w.objs
    /\ log' = w.log
    /\ ub' = w.ub
    /\ last' = o
    /\ pre' = slots
    /\ preobjs' = objs
    /\ preheap' = heap
    /\ ret' = <<>>
    /\ UNCHANGED <<adapters, origin>>

Init ==
    /\ slots = [i \in {Tmp} \cup Slots |-> Dead]
    /\ heap = [p \in Addrs |-> 0]
    /\ objs = NoObjs
    /\ log = <<>>
    /\ ub = FALSE
    /\ last = Op("none", 0, 0, 0, 0)
    /\ pre = [i \in {Tmp} \cup Slots |-> Dead]
    /\ preobjs = NoObjs
    /\ preheap = [p \in Addrs |-> 0]
    /\ ret = <<>>
    /\ adapters = [k \in Adapters |-> NoAdapter]
    /\ origin = [k \in Adapters |-> NoOrigin]

\* UniquePtr<T> p;  /  UniquePtr<T> p(nullptr);
DefaultConstruct(i, t) ==
    /\ ~Live(slots[i])
    /\ Commit([slots EXCEPT ![i] = DefaultCtor(t)], World,
              Op("default", i, 0, 0, 0))

\* auto p = make_unique<T>(allocator, args...);
MakeUniqueScalar(i, t, a, val, res) ==
    /\ ~Live(slots[i])
    /\ a = 0 => res = 0
    /\ LET r == MakeUniqueScalarOp(World, t, a, val, res)
       IN Commit([slots EXCEPT ![i] = r.u], r.w, Op("make_scalar", i, 0, a, val))

\* auto p = make_unique<T[]>(allocator, length);
MakeUniqueArray(i, a, length, res) ==
    /\ ~Live(slots[i])
    /\ a = 0 => res = 0
    /\ LET r == MakeUniqueArrayOp(World, a, length, res)
       IN Commit([slots EXCEPT ![i] = r.u], r.w, Op("make_array", i, 0, a, length))

\* UniquePtr<T> p(std::move(q));
MoveConstruct(i, j) ==
    /\ ~Live(slots[i])
    /\ Live(slots[j])
    /\ Commit(MoveCtor(slots, i, j), World, Op("move_ctor", i, j, 0, 0))

\* UniquePtr<Base> p(std::move(q)) with q a UniquePtr<Derived>
ConvertMoveConstruct(i, j, t) ==
    /\ ~Live(slots[i])
    /\ Live(slots[j])
    /\ IsConvertible(slots[j].ty, t)
    /\ Commit(ConvertCtor(slots, i, j, t), World, Op("convert_ctor", i, j, 0, 0))

\* p = std::move(q);  (q may be p)
MoveAssign(i, j) ==
    /\ Live(slots[i])
    /\ Live(slots[j])
    /\ slots[i].ty = slots[j].ty
    /\ LET r == MoveAssignOp(slots, World, i, j)
       IN Commit(r.st, r.w, Op("move_assign", i, j, 0, 0))

\* p.swap(q);  /  swap(p, q);
SwapPtrs(i, j) ==
    /\ Live(slots[i])
    /\ Live(slots[j])
    /\ slots[i].ty = slots[j].ty
    /\ Commit(Swap(slots, i, j), World, Op("swap", i, j, 0, 0))

\* arr[index].set_value(val); with index < arr.length()
WriteElement(i, index, val) ==
    /\ slots[i].ty = ArrayType
    /\ Bool(slots[i])
    /\ index < Length(slots[i])
    /\ Commit(slots,
              [World EXCEPT !.objs = Store(objs, ElementAddr(slots[i], index), val)],
              Op("write", i, 0, index, val))

\* swap(p, q);
FreeSwapPtrs(i, j) ==
    /\ Live(slots[i])
    /\ Live(slots[j])
    /\ slots[i].ty = slots[j].ty
    /\ Commit(FreeSwap(slots, i, j), World, Op("free_swap", i, j, 0, 0))

\* p goes out of scope
Destroy(i) ==
    /\ Live(slots[i])
    /\ Commit([slots EXCEPT ![i] = Dead], Dtor(World, slots[i]),
              Op("destroy", i, 0, 0, 0))

\* the state after an operation of a StlAllocator that returned r
StlCommit(ad, og, w, o, r) ==
    /\ last.op = "none"
    /\ ~ub
    /\ adapters' = ad
    /\ origin' = og
    /\ heap' = w.heap
    /\ objs' = w.objs
    /\ log' = w.log
    /\ ub' = w.ub
    /\ last' = o
    /\ preobjs' = objs
    /\ preheap' = heap
    /\ ret' = r
    /\ UNCHANGED <<slots, pre>>

\* StlAllocator<T> x(&allocator);
StlConstruct(k, t, a) ==
    /\ adapters[k].ty = "none"
    /\ StlCommit([adapters EXCEPT ![k] = StlCtor(t, a)],
                 [origin EXCEPT ![k] = a],
                 World,
                 Op("stl_ctor", k, 0, a, 0), <<>>)

\* StlAllocator<U> x(y);  copy when U is the type of y, rebind otherwise
StlRebind(k, j, t) ==
    /\ adapters[k].ty = "none"
    /\ adapters[j].ty # "none"
    /\ StlCommit([adapters EXCEPT ![k] = StlConvertCtor(t, adapters[j])],
                 [origin EXCEPT ![k] = origin[j]],
                 World,
                 Op("stl_rebind", k, j, 0, 0), <<>>)

\* x goes out of scope
StlDrop(k) ==
    /\ adapters[k].ty # "none"
    /\ StlCommit([adapters EXCEPT ![k] = NoAdapter],
                 [origin EXCEPT ![k] = NoOrigin], World,
                 Op("stl_drop", k, 0, 0, 0), <<>>)

\* T* p = x.allocate(n);
StlAllocate(k, n, res) ==
    /\ adapters[k].ty # "none"
    /\ LET r == StlAllocateOp(World, adapters[k], n, res)
       IN StlCommit(adapters, origin, r.w, Op("stl_allocate", k, 0, 0, n), <<r.p>>)

\* x.deallocate(p, n); with p null or a block of the allocator of x
StlDeallocate(k, p, n) ==
    /\ adapters[k].ty # "none"
    /\ p # 0 => heap[p] = adapters[k].m_allocator
    /\ StlCommit(adapters, origin, StlDeallocateOp(World, adapters[k], p, n),
                 Op("stl_deallocate", k, 0, p, n), <<>>)

\* x == y;  x != y;
StlCompare(k, j) ==
    /\ adapters[k].ty # "none"
    /\ adapters[j].ty # "none"
    /\ StlCommit(adapters, origin, World, Op("stl_compare", k, j, 0, 0),
                 <<StlEq(adapters[k], adapters[j]), StlNe(adapters[k], adapters[j])>>)

\* void* ptr = allocator.allocate(size, alignment); on a DefaultAllocator
DefaultAllocatorAllocate(size, alignment, res) ==
    /\ res \in AlignedAlloc(heap, alignment, size)
    /\ StlCommit(adapters, origin, DefaultAllocate(World, size, alignment, res),
                 Op("default_allocate", 0, 0, alignment, size), <<res>>)

\* allocator.deallocate(ptr); with ptr null or returned by allocate before
DefaultAllocatorDeallocate(ptr) ==
    /\ ptr # 0 => heap[ptr] = TestAllocator
    /\ StlCommit(adapters, origin, DefaultDeallocate(World, ptr),
                 Op("default_deallocate", 0, 0, ptr, 0), <<>>)

\* the state after an access to a UniquePtr that returned r
Access(o, r) ==
    /\ last.op = "none"
    /\ last' = o
    /\ ret' = <<r>>
    /\ log' = <<>>
    /\ pre' = slots
    /\ preobjs' = objs
    /\ preheap' = heap
    /\ UNCHANGED <<slots, heap, objs, ub, adapters, origin>>

\* *p;
Star(i) ==
    /\ slots[i].ty \in ScalarTypes
    /\ Access(Op("star", i, 0, 0, 0), OperatorStar(slots[i]))

\* p->get_value();  the pointer operator-> hands to the member access
Arrow(i) ==
    /\ slots[i].ty \in ScalarTypes
    /\ Access(Op("arrow", i, 0, 0, 0), OperatorArrow(slots[i]))

\* arr[index];
Index(i, index) ==
    /\ slots[i].ty = ArrayType
    /\ Access(Op("index", i, 0, index, 0), OperatorIndex(slots[i], index))

\* p = std::move(q); step by step.  First the temporary is move constructed
\* from q: UniquePtr(std::move(other))
MoveAssignTemp(i, j) ==
    /\ last.op = "none"
    /\ Live(slots[i])
    /\ Live(slots[j])
    /\ slots[i].ty = slots[j].ty
    /\ slots' = MoveCtor(slots, Tmp, j)
    /\ last' = Op("assign_temp", i, j, 0, 0)
    /\ pre' = slots
    /\ preobjs' = objs
    /\ preheap' = heap
    /\ log' = <<>>
    /\ ret' = <<>>
    /\ UNCHANGED <<heap, objs, ub, adapters, origin>>

\* then the temporary is swapped with p: .swap(*this)
MoveAssignSwap ==
    /\ last.op = "assign_temp"
    /\ slots' = Swap(slots, Tmp, last.dst)
    /\ last' = [last EXCEPT !.op = "assign_swap"]
    /\ UNCHANGED <<heap, objs, log, ub, pre, preobjs, preheap, ret, adapters, origin>>

\* then the temporary is destroyed at the end of the full expression
MoveAssignEnd ==
    /\ last.op = "assign_swap"
    /\ LET w == Dtor(World, slots[Tmp])
       IN /\ heap' = w.heap
          /\ objs' = w.objs
          /\ log' = w.log
          /\ ub' = w.ub
    /\ slots' = [slots EXCEPT ![Tmp] = Dead]
    /\ last' = [last EXCEPT !.op = "move_assign"]
    /\ UNCHANGED <<pre, preobjs, preheap, ret, adapters, origin>>

\* a move assignment is under way
MidAssign == last.op \in {"assign_temp", "assign_swap"}

\* a failed assert has aborted the program
Aborted == last.op \in {"star", "arrow", "index"} /\ ret[1].assert

\* DestructorTracker::reset_counter(): the record of the last operation is
\* cleared before the next one is observed
ResetCounter ==
    /\ last.op # "none"
    /\ ~Aborted
    /\ ~MidAssign
    /\ log' = <<>>
    /\ last' = Op("none", 0, 0, 0, 0)
    /\ pre' = [i \in {Tmp} \cup Slots |-> Dead]
    /\ preobjs' = NoObjs
    /\ preheap' = [p \in Addrs |-> 0]
    /\ ret' = <<>>
    /\ UNCHANGED <<slots, heap, objs, ub, adapters, origin>>

Next ==
    \/ ResetCounter
    \/ \E i \in Slots, t \in Types : DefaultConstruct(i, t)
    \/ \E i \in Slots, t \in MakeTypes, a \in 0..NumAllocs, res \in AllocResults :
          MakeUniqueScalar(i, t, a, LifetimeArg, res)
    \/ \E i \in Slots, a \in 0..NumAllocs, n \in 0..MaxLen, res \in AllocResults :
          MakeUniqueArray(i, a, n, res)
    \/ \E i, j \in Slots : MoveConstruct(i, j)
    \/ \E i, j \in Slots, t \in ScalarTypes : ConvertMoveConstruct(i, j, t)
    \/ \E i, j \in Slots : MoveAssign(i, j)
    \/ \E i, j \in Slots : SwapPtrs(i, j)
    \/ \E i \in Slots : Destroy(i)

Spec == Init /\ [][Next]_vars

\* the scalar UniquePtr with objects of different values
NextScalar ==
    \/ ResetCounter
    \/ \E i \in Slots, t \in ScalarTypes : DefaultConstruct(i, t)
    \/ \E i \in Slots, t \in MakeTypes, a \in 0..NumAllocs, val \in Values,
          res \in AllocResults : MakeUniqueScalar(i, t, a, val, res)
    \/ \E i, j \in Slots : MoveConstruct(i, j)
    \/ \E i, j \in Slots, t \in ScalarTypes : ConvertMoveConstruct(i, j, t)
    \/ \E i, j \in Slots : MoveAssign(i, j)
    \/ \E i, j \in Slots : SwapPtrs(i, j)
    \/ \E i, j \in Slots : FreeSwapPtrs(i, j)
    \/ \E i \in Slots : Destroy(i)

SpecScalar == Init /\ [][NextScalar]_vars

\* the array UniquePtr of one DefaultAllocator, with elements that are written
NextArray ==
    \/ ResetCounter
    \/ \E i \in Slots : DefaultConstruct(i, ArrayType)
    \/ \E i \in Slots, n \in 0..MaxLen, res \in AllocResults :
          MakeUniqueArray(i, TestAllocator, n, res)
    \/ \E i \in Slots, index \in 0..(MaxLen - 1) : WriteElement(i, index, LifetimeArg)
    \/ \E i, j \in Slots : MoveConstruct(i, j)
    \/ \E i, j \in Slots : MoveAssign(i, j)
    \/ \E i, j \in Slots : SwapPtrs(i, j)
    \/ \E i \in Slots : Destroy(i)

SpecArray == Init /\ [][NextArray]_vars

\* StlAllocator objects over the allocators, used as a container uses them
NextStl ==
    \/ ResetCounter
    \/ \E k \in Adapters, t \in StlTypes, a \in Allocs : StlConstruct(k, t, a)
    \/ \E k, j \in Adapters, t \in StlTypes : StlRebind(k, j, t)
    \/ \E k \in Adapters : StlDrop(k)
    \/ \E k \in Adapters, n \in 0..MaxLen, res \in AllocResults :
          StlAllocate(k, n, res)
    \/ \E k \in Adapters, p \in {0} \cup Addrs, n \in 0..MaxLen :
          StlDeallocate(k, p, n)
    \/ \E k, j \in Adapters : StlCompare(k, j)

SpecStl == Init /\ [][NextStl]_vars

\* StlAllocator<int> objects and what a container makes of them: it rebinds
\* to its node type and back, and copies; only StlAllocator<int> is
\* constructed from an IAllocator*
NextRebind ==
    \/ ResetCounter
    \/ \E k \in Adapters, a \in Allocs : StlConstruct(k, "I", a)
    \/ \E k, j \in Adapters, t \in StlTypes : StlRebind(k, j, t)
    \/ \E k \in Adapters : StlDrop(k)
    \/ \E k, j \in Adapters : StlCompare(k, j)

SpecRebind == Init /\ [][NextRebind]_vars

\* access to scalar and array UniquePtrs of one DefaultAllocator in a debug
\* build; every array is made with a length and no array is default
\* constructed, so an Empty array is one that was moved from
NextAccess ==
    \/ ResetCounter
    \/ \E i \in Slots : DefaultConstruct(i, "D")
    \/ \E i \in Slots, res \in AllocResults :
          MakeUniqueScalar(i, "D", TestAllocator, LifetimeArg, res)
    \/ \E i \in Slots, n \in 1..MaxLen, res \in AllocResults \ {0} :
          MakeUniqueArray(i, TestAllocator, n, res)
    \/ \E i, j \in Slots : MoveConstruct(i, j)
    \/ \E i, j \in Slots : MoveAssign(i, j)
    \/ \E i \in Slots : Destroy(i)
    \/ \E i \in Slots : Star(i)
    \/ \E i \in Slots : Arrow(i)
    \/ \E i \in Slots, index \in 0..(MaxLen + 1) : Index(i, index)

SpecAccess == Init /\ [][NextAccess]_vars

\* move assignment of UniquePtrs of one DefaultAllocator, seen step by step
NextSteps ==
    \/ ResetCounter
    \/ \E i \in Slots, t \in {"D", ArrayType} : DefaultConstruct(i, t)
    \/ \E i \in Slots, res \in AllocResults :
          MakeUniqueScalar(i, "D", TestAllocator, LifetimeArg, res)
    \/ \E i \in Slots, n \in 0..MaxLen, res \in AllocResults :
          MakeUniqueArray(i, TestAllocator, n, res)
    \/ \E i, j \in Slots : MoveAssignTemp(i, j)
    \/ MoveAssignSwap
    \/ MoveAssignEnd
    \/ \E i \in Slots : Destroy(i)

SpecSteps == Init /\ [][NextSteps]_vars

\* element counts at both ends of size_t: small ones, and the first ones
\* whose size in bytes no longer fits (more than SIZE_MAX / sizeof(int))
WideCounts == {1, SizeModulus \div SizeOf("I"), SizeModulus \div SizeOf("I") + 1}

\* arrays and StlAllocator storage of one DefaultAllocator for element counts
\* over the whole range of size_t; a StlAllocator is given back only blocks
\* that no UniquePtr owns
NextWide ==
    \/ ResetCounter
    \/ \E i \in Slots, n \in WideCounts, res \in AllocResults :
          MakeUniqueArray(i, TestAllocator, n, res)
    \/ \E i \in Slots : Destroy(i)
    \/ \E k \in Adapters, t \in StlTypes : StlConstruct(k, t, TestAllocator)
    \/ \E k \in Adapters : StlDrop(k)
    \/ \E k \in Adapters, n \in WideCounts, res \in AllocResults :
          StlAllocate(k, n, res)
    \/ \E k \in Adapters, n \in WideCounts,
          p \in Addrs \ {slots[i].m_allocated_memory : i \in Slots} :
          StlDeallocate(k, p, n)

SpecWide == Init /\ [][NextWide]_vars

\* one DefaultAllocator used directly
NextDefault ==
    \/ ResetCounter
    \/ \E rq \in DefaultRequests, res \in {0} \cup Addrs :
          DefaultAllocatorAllocate(rq[1], rq[2], res)
    \/ \E ptr \in {0} \cup Addrs : DefaultAllocatorDeallocate(ptr)

SpecDefault == Init /\ [][NextDefault]_vars

\* ------------------------------------------------------------ properties
\* the members of a UniquePtr, without its static type
Fields(u) == <<u.m_allocator, u.m_ptr, u.m_allocated_memory, u.m_length>>
IsEmpty(u) == Fields(u) = <<0, 0, 0, 0>>
IsOwning(u) == u.m_allocator # 0 /\ u.m_ptr # 0 /\ u.m_allocated_memory # 0
\* how many events of one kind the last operation produced
Count(e) == Cardinality({k \in DOMAIN log : log[k].ev = e})
\* the events by which one UniquePtr releases what it owns
IsRelease(l, u) ==
    LET n == IF u.ty = ArrayType THEN u.m_length ELSE 1
    IN /\ Len(l) = n + 1
       /\ \A k \in 1..n : /\ l[k].ev = "destroy"
                          /\ l[k].p = BlockOf(u.m_ptr)
                          /\ l[k].t # "none"
       /\ l[n + 1].ev = "deallocate"
       /\ l[n + 1].a = u.m_allocator
       /\ l[n + 1].p = u.m_allocated_memory
       /\ l[n + 1].t = "own"

\* C1: between operations the three members of every scalar UniquePtr
\* (allocator, object pointer, allocated memory) are all null or all non-null.
C1_ScalarAllOrNothing ==
    \A i \in Slots : slots[i].ty \in ScalarTypes =>
        \/ slots[i].m_allocator = 0 /\ slots[i].m_ptr = 0
           /\ slots[i].m_allocated_memory = 0
        \/ slots[i].m_allocator # 0 /\ slots[i].m_ptr # 0
           /\ slots[i].m_allocated_memory # 0

\* a scalar move constructor has just emptied its source and filled its
\* destination
C1_Witness ==
    /\ last.op = "move_ctor"
    /\ slots[last.dst].ty \in ScalarTypes
    /\ IsOwning(slots[last.dst])
    /\ IsEmpty(slots[last.src])

\* C2: for every array UniquePtr, length() == 0 if and only if the element
\* pointer and the allocated memory are null.
C2_LengthZeroIffNull ==
    \A i \in Slots : slots[i].ty = ArrayType =>
        (Length(slots[i]) = 0 <=>
            (slots[i].m_ptr = 0 /\ slots[i].m_allocated_memory = 0))

\* C3: no two live UniquePtr hold the same non-null allocated memory.
C3_SoleOwner ==
    \A i, j \in Slots :
        (i # j /\ Live(slots[i]) /\ Live(slots[j])
         /\ slots[i].m_allocated_memory # 0)
        => slots[i].m_allocated_memory # slots[j].m_allocated_memory

\* a move has just run and its source is still alive next to the owner
C3_Witness ==
    /\ last.op \in {"move_ctor", "convert_ctor", "move_assign"}
    /\ last.dst # last.src
    /\ Live(slots[last.src])
    /\ IsOwning(slots[last.dst])

\* C4: every block a UniquePtr holds is recorded with the allocator whose
\* allocate returned it, and every deallocate call is made on the allocator
\* that owns the block.
C4_SameAllocator ==
    /\ \A i \in Slots : slots[i].m_allocated_memory # 0 =>
           heap[slots[i].m_allocated_memory] = slots[i].m_allocator
    /\ \A k \in DOMAIN log : log[k].ev = "deallocate" => log[k].t = "own"

\* a move assignment between pointers of two allocators has released the
\* destination's block
C4_Witness ==
    /\ last.op = "move_assign"
    /\ IsOwning(pre[last.dst])
    /\ IsOwning(pre[last.src])
    /\ pre[last.dst].m_allocator # pre[last.src].m_allocator
    /\ Count("deallocate") = 1

\* C5: destroying an Owning scalar UniquePtr runs the object's destructor once
\* and then deallocate once on the recorded allocator; destroying an Empty one
\* runs neither.
C5_ScalarDestruction ==
    (last.op = "destroy" /\ pre[last.dst].ty \in ScalarTypes) =>
        IF Bool(pre[last.dst])
        THEN /\ IsRelease(log, pre[last.dst])
             /\ Len(log) = 2
             /\ objs[pre[last.dst].m_allocated_memory].n = 0
             /\ heap[pre[last.dst].m_allocated_memory] = 0
        ELSE log = <<>>

C5_Witness ==
    /\ last.op = "destroy"
    /\ pre[last.dst].ty \in ScalarTypes
    /\ Bool(pre[last.dst])
    /\ Len(log) = 2

\* C6: move-constructing a scalar UniquePtr from a non-Empty source leaves the
\* source with all members null, gives the destination the source's members,
\* calls nothing, and destroying the source afterwards does nothing.
C6_ScalarMoveConstruct ==
    (last.op = "move_ctor" /\ pre[last.src].ty \in ScalarTypes
     /\ Bool(pre[last.src])) =>
        /\ ~Bool(slots[last.src])
        /\ Get(slots[last.src]) = 0
        /\ IsEmpty(slots[last.src])
        /\ Fields(slots[last.dst]) = Fields(pre[last.src])
        /\ slots[last.dst].ty = pre[last.src].ty
        /\ log = <<>>
        /\ Dtor(World, slots[last.src]) = World

C6_Witness ==
    /\ last.op = "move_ctor"
    /\ pre[last.src].ty \in ScalarTypes
    /\ Bool(pre[last.src])
    /\ Bool(slots[last.dst])

\* C7: move assignment to a distinct destination gives the destination the
\* source's members, empties the source, and releases what the destination
\* owned before exactly once: its own number of destructors, then one
\* deallocate of its block.
C7_MoveAssign ==
    (last.op = "move_assign" /\ last.dst # last.src) =>
        /\ Fields(slots[last.dst]) = Fields(pre[last.src])
        /\ IsEmpty(slots[last.src])
        /\ IF Bool(pre[last.dst]) THEN IsRelease(log, pre[last.dst])
           ELSE log = <<>>
        /\ ~ub

\* an array of length 2 was assigned an array of length 1
C7_Witness ==
    /\ last.op = "move_assign"
    /\ last.dst # last.src
    /\ pre[last.dst].ty = ArrayType
    /\ IsOwning(pre[last.dst])
    /\ IsOwning(pre[last.src])
    /\ pre[last.dst].m_length = 2
    /\ pre[last.src].m_length = 1
    /\ Count("destroy") = 2

\* C8: self move assignment leaves the UniquePtr as it was and calls no
\* destructor and no deallocate.
C8_SelfMoveAssign ==
    (last.op = "move_assign" /\ last.dst = last.src) =>
        /\ slots[last.dst] = pre[last.dst]
        /\ log = <<>>
        /\ ~ub

C8_Witness ==
    /\ last.op = "move_assign"
    /\ last.dst = last.src
    /\ IsOwning(slots[last.dst])

\* C9: make_unique with a null allocator returns an Empty UniquePtr (length 0)
\* and calls neither allocate nor a constructor.
C9_NullAllocator ==
    (last.op \in {"make_scalar", "make_array"} /\ last.a = 0) =>
        /\ ~Bool(slots[last.dst])
        /\ IsEmpty(slots[last.dst])
        /\ Length(slots[last.dst]) = 0
        /\ log = <<>>

C9_Witness ==
    /\ last.op = "make_array"
    /\ last.a = 0
    /\ last.n > 0
    /\ Live(slots[last.dst])

\* C10: when allocate returns null, make_unique returns an Empty UniquePtr
\* (length 0), constructs nothing and deallocates nothing.
C10_AllocationFailure ==
    (last.op \in {"make_scalar", "make_array"} /\ last.a # 0
     /\ log[1].p = 0) =>
        /\ ~Bool(slots[last.dst])
        /\ IsEmpty(slots[last.dst])
        /\ Length(slots[last.dst]) = 0
        /\ Count("allocate") = 1
        /\ Count("construct") = 0
        /\ Count("deallocate") = 0
        /\ Len(log) = 1

C10_Witness ==
    /\ last.op = "make_array"
    /\ last.a # 0
    /\ last.n > 0
    /\ log[1].ev = "allocate"
    /\ log[1].p = 0

\* C11: make_unique<T>(allocator, args...) with a non-null allocator calls
\* allocate once with sizeof(T) and alignof(T); when that returns non-null it
\* constructs one object there with the arguments and returns an Owning
\* UniquePtr with the supplied allocator and the returned address.
C11_MakeUniqueScalar ==
    (last.op = "make_scalar" /\ last.a # 0) =>
        /\ Count("allocate") = 1
        /\ log[1].ev = "allocate"
        /\ log[1].a = last.a
        /\ log[1].n = SizeOf(slots[last.dst].ty)
        /\ log[1].al = AlignOf(slots[last.dst].ty)
        /\ log[1].p # 0 =>
              /\ Len(log) = 2
              /\ log[2] = Event("construct", 0, log[1].p, last.n, 0,
                                slots[last.dst].ty)
              /\ objs[log[1].p] = [dyn |-> slots[last.dst].ty, n |-> 1,
                                   v |-> <<last.n>>]
              /\ Fields(slots[last.dst]) = <<last.a, log[1].p, log[1].p, 0>>
              /\ Bool(slots[last.dst])
              /\ Deref(objs, slots[last.dst]) = last.n

C11_Witness ==
    /\ last.op = "make_scalar"
    /\ last.a = 2
    /\ last.n = 24
    /\ Len(log) = 2
    /\ log[1].p # 0
    /\ IsOwning(slots[last.dst])

\* C12: a successful make_unique<T[]>(allocator, count) has length() == count
\* and count default-valued elements; writing element i through operator[]
\* changes element i only.
C12_ArrayElements ==
    /\ (last.op = "make_array" /\ Bool(slots[last.dst])) =>
          /\ Length(slots[last.dst]) = last.n
          /\ objs[slots[last.dst].m_allocated_memory].n = last.n
          /\ objs[slots[last.dst].m_allocated_memory].v
                = [k \in 1..last.n |-> DefaultValue]
    /\ last.op = "write" =>
          /\ slots = pre
          /\ \A b \in Addrs :
                IF b = slots[last.dst].m_allocated_memory
                THEN /\ objs[b].n = preobjs[b].n
                     /\ Len(objs[b].v) = Len(preobjs[b].v)
                     /\ \A k \in 1..Len(objs[b].v) :
                           objs[b].v[k] = IF k = last.a + 1 THEN last.n
                                          ELSE preobjs[b].v[k]
                ELSE objs[b] = preobjs[b]

\* element 1 of an array of two was written, element 0 is still default
C12_Witness ==
    /\ last.op = "write"
    /\ last.a = 1
    /\ Length(slots[last.dst]) = 2
    /\ objs[slots[last.dst].m_allocated_memory].v = <<DefaultValue, last.n>>
    /\ last.n # DefaultValue

\* C13: destroying an Owning array UniquePtr of length N runs the element
\* destructor N times, once on each element, and only then calls deallocate
\* once on the one block.
C13_ArrayDestruction ==
    (last.op = "destroy" /\ pre[last.dst].ty = ArrayType /\ Bool(pre[last.dst])) =>
        LET u == pre[last.dst]
            N == u.m_length
        IN /\ Len(log) = N + 1
           /\ \A k \in 1..N :
                 /\ log[k].ev = "destroy"
                 /\ log[k].n = u.m_ptr + (k - 1) * SizeOf(ArrayType)
                 /\ log[k].p = u.m_allocated_memory
                 /\ log[k].t = ArrayType
           /\ log[N + 1] = Event("deallocate", u.m_allocator,
                                 u.m_allocated_memory, 0, 0, "own")
           /\ objs[u.m_allocated_memory].n = 0
           /\ heap[u.m_allocated_memory] = 0
           /\ ~ub

C13_Witness ==
    /\ last.op = "destroy"
    /\ pre[last.dst].ty = ArrayType
    /\ pre[last.dst].m_length = 2
    /\ Count("destroy") = 2
    /\ Count("deallocate") = 1

\* C14: move-constructing an array UniquePtr gives the destination the
\* source's length and members with the element values unchanged, and leaves
\* the source with boolean check false and length() == 0.
C14_ArrayMoveConstruct ==
    (last.op = "move_ctor" /\ pre[last.src].ty = ArrayType) =>
        /\ Length(slots[last.dst]) = pre[last.src].m_length
        /\ Fields(slots[last.dst]) = Fields(pre[last.src])
        /\ slots[last.dst].ty = ArrayType
        /\ ~Bool(slots[last.src])
        /\ Length(slots[last.src]) = 0
        /\ IsEmpty(slots[last.src])
        /\ objs = preobjs
        /\ log = <<>>

\* an array of two with a written element was moved
C14_Witness ==
    /\ last.op = "move_ctor"
    /\ pre[last.src].ty = ArrayType
    /\ Length(slots[last.dst]) = 2
    /\ objs[slots[last.dst].m_allocated_memory].v = <<LifetimeArg, DefaultValue>>
    /\ ~Bool(slots[last.src])

\* C15: swap (member or free function) of two scalar UniquePtr exchanges their
\* members and so their contained values, and calls no destructor, allocate
\* or deallocate; with one Empty operand exactly one is Empty afterwards.
C15_ScalarSwap ==
    (last.op \in {"swap", "free_swap"} /\ pre[last.dst].ty \in ScalarTypes) =>
        /\ Fields(slots[last.dst]) = Fields(pre[last.src])
        /\ Fields(slots[last.src]) = Fields(pre[last.dst])
        /\ log = <<>>
        /\ objs = preobjs
        /\ Bool(pre[last.src]) =>
              Deref(objs, slots[last.dst]) = Deref(preobjs, pre[last.src])
        /\ Bool(pre[last.dst]) =>
              Deref(objs, slots[last.src]) = Deref(preobjs, pre[last.dst])
        /\ (Bool(pre[last.dst]) /\ ~Bool(pre[last.src])) =>
              (~Bool(slots[last.dst]) /\ Bool(slots[last.src]))
        /\ (~Bool(pre[last.dst]) /\ Bool(pre[last.src])) =>
              (Bool(slots[last.dst]) /\ ~Bool(slots[last.src]))

\* the free function swapped two pointers with different values
C15_Witness ==
    /\ last.op = "free_swap"
    /\ last.dst # last.src
    /\ Bool(slots[last.dst])
    /\ Bool(slots[last.src])
    /\ Deref(objs, slots[last.dst]) = 24
    /\ Deref(objs, slots[last.src]) = 42
    /\ Deref(preobjs, pre[last.dst]) = 42

\* C16: move-converting a UniquePtr<DerivedClass> to a UniquePtr of either base
\* leaves the source Empty and the object as it was; destroying the base-typed
\* pointer runs the derived destructor once, so each base's counter is 1.
C16_ConvertAndDestroy ==
    /\ (last.op = "convert_ctor" /\ Bool(pre[last.src])) =>
          /\ IsEmpty(slots[last.src])
          /\ Bool(slots[last.dst])
          /\ slots[last.dst].m_allocator = pre[last.src].m_allocator
          /\ slots[last.dst].m_allocated_memory = pre[last.src].m_allocated_memory
          /\ objs = preobjs
          /\ Deref(objs, slots[last.dst]) = Deref(preobjs, pre[last.src])
          /\ log = <<>>
    /\ (last.op = "destroy" /\ pre[last.dst].ty \in {"B1", "B2"}
        /\ Bool(pre[last.dst])) =>
          /\ Count("destroy") = 1
          /\ log[1].ev = "destroy"
          /\ log[1].t = "D"
          /\ log[1].p = pre[last.dst].m_allocated_memory
          /\ BaseCounter(log) = 1
          /\ SecondCounter(log) = 1
          /\ log[2] = Event("deallocate", pre[last.dst].m_allocator,
                            pre[last.dst].m_allocated_memory, 0, 0, "own")
          /\ Len(log) = 2
          /\ ~ub

\* a UniquePtr<SecondBase> that owned a DerivedClass was destroyed
C16_Witness ==
    /\ last.op = "destroy"
    /\ pre[last.dst].ty = "B2"
    /\ Bool(pre[last.dst])
    /\ BaseCounter(log) = 1
    /\ SecondCounter(log) = 1

\* the StlAllocator object an operation was called on, and its argument
StlSelf == adapters[last.dst]
StlOther == adapters[last.src]

\* C17: StlAllocator<T>::allocate(0) returns null and makes no call to the
\* underlying IAllocator: the outstanding allocations are what they were.
C17_AllocateZero ==
    (last.op = "stl_allocate" /\ last.n = 0) =>
        /\ ret = <<0>>
        /\ log = <<>>
        /\ heap = preheap

\* allocate(0) was called while an allocation was outstanding
C17_Witness ==
    /\ last.op = "stl_allocate"
    /\ last.n = 0
    /\ ret = <<0>>
    /\ \E p \in Addrs : heap[p] = StlSelf.m_allocator

\* C18: for count > 0, StlAllocator<T>::allocate(count) calls the underlying
\* allocate exactly once, with size count * sizeof(T) (a size_t product) and
\* alignment alignof(T), and returns the address that call returned.
C18_AllocateDelegates ==
    (last.op = "stl_allocate" /\ last.n > 0) =>
        /\ Len(log) = 1
        /\ log[1].ev = "allocate"
        /\ log[1].a = StlSelf.m_allocator
        /\ log[1].n = (last.n * SizeOf(StlSelf.ty)) % SizeModulus
        /\ log[1].al = AlignOf(StlSelf.ty)
        /\ ret = <<log[1].p>>
        /\ heap = IF ret[1] = 0 THEN preheap
                  ELSE [preheap EXCEPT ![ret[1]] = StlSelf.m_allocator]

\* a rebound StlAllocator allocated two list nodes and the allocator succeeded
C18_Witness ==
    /\ last.op = "stl_allocate"
    /\ last.n = 2
    /\ StlSelf.ty = "N"
    /\ Len(log) = 1
    /\ log[1].n = 48
    /\ log[1].al = 8
    /\ ret # <<0>>

\* C19: StlAllocator<T>::deallocate(p, n) makes no call to the underlying
\* allocator when p is null; otherwise it calls the underlying deallocate
\* exactly once with p; what happens does not depend on n.
C19_Deallocate ==
    last.op = "stl_deallocate" =>
        IF last.a = 0
        THEN /\ log = <<>>
             /\ heap = preheap
        ELSE /\ log = <<Event("deallocate", StlSelf.m_allocator, last.a, 0, 0, "own")>>
             /\ heap = [preheap EXCEPT ![last.a] = 0]

\* a block was deallocated with a count of 0
C19_Witness ==
    /\ last.op = "stl_deallocate"
    /\ last.a # 0
    /\ last.n = 0
    /\ Len(log) = 1
    /\ heap[last.a] = 0

\* C20: two StlAllocator objects compare equal exactly when they hold the same
\* IAllocator pointer, and operator!= is the negation of operator==.
C20_Equality ==
    last.op = "stl_compare" =>
        /\ ret[1] = (StlSelf.m_allocator = StlOther.m_allocator)
        /\ ret[2] = ~ret[1]

\* two StlAllocator objects over different allocators were compared
C20_Witness ==
    /\ last.op = "stl_compare"
    /\ last.dst # last.src
    /\ StlSelf.m_allocator # StlOther.m_allocator
    /\ ret = <<FALSE, TRUE>>

\* C21: a StlAllocator obtained by copying or rebinding refers to the same
\* IAllocator as its source, so after any chain of copies and rebinds
\* get_allocator() is the pointer the first object was constructed with.
C21_RebindKeepsAllocator ==
    /\ \A k \in Adapters : adapters[k].ty # "none" =>
          StlGetAllocator(adapters[k]) = origin[k]
    /\ last.op = "stl_rebind" =>
          StlGetAllocator(StlSelf) = StlGetAllocator(StlOther)

\* a StlAllocator<int> was made from a node allocator, which itself can only
\* have come from a StlAllocator<int> by a rebind: a chain of two
C21_Witness ==
    /\ last.op = "stl_rebind"
    /\ StlOther.ty = "N"
    /\ StlSelf.ty = "I"
    /\ StlGetAllocator(StlSelf) = origin[last.dst]
    /\ StlGetAllocator(StlSelf) \in Allocs

\* C22 as stated: for every valid (size, alignment), DefaultAllocator::allocate
\* returns a non-null address that is a multiple of alignment, also with
\* other allocations outstanding, and the address can be deallocated.
C22_AlwaysNonNull ==
    last.op = "default_allocate" =>
        /\ ret[1] # 0
        /\ ret[1] % last.a = 0
        /\ heap[ret[1]] = TestAllocator

\* C22, amended: DefaultAllocator::allocate returns what aligned_alloc
\* returns: null when the request cannot be satisfied, otherwise an address
\* that is a multiple of alignment and was not outstanding; deallocate of an
\* address allocate returned releases it without undefined behaviour.
C22_AlignedOrNull ==
    /\ last.op = "default_allocate" =>
          /\ log = <<Event("allocate", TestAllocator, ret[1], last.n, last.a, "none")>>
          /\ ret[1] # 0 =>
                /\ ret[1] % last.a = 0
                /\ preheap[ret[1]] = 0
                /\ heap[ret[1]] = TestAllocator
    /\ (last.op = "default_deallocate" /\ last.a # 0) =>
          /\ log = <<Event("deallocate", TestAllocator, last.a, 0, 0, "own")>>
          /\ heap[last.a] = 0
          /\ ~ub

\* an allocation aligned to 128 succeeded while another was outstanding
C22_Witness ==
    /\ last.op = "default_allocate"
    /\ last.a = 128
    /\ ret = <<128>>
    /\ \E p \in Addrs \ {128} : heap[p] = TestAllocator

\* C23: in a debug build, operator* and operator-> of an Empty scalar
\* UniquePtr fail an assertion; neither returns null to the caller.
C23_EmptyDerefAsserts ==
    (last.op \in {"star", "arrow"} /\ ~Bool(slots[last.dst])) =>
        ret[1].assert

\* C24: in a debug build operator[] fails an assertion when the array
\* UniquePtr is Empty or index >= length(); it returns an element, the one at
\* that index, only for index < length(); every index fails on a moved-from
\* array.
C24_IndexChecked ==
    last.op = "index" =>
        LET u == slots[last.dst]
        IN IF u.m_ptr # 0 /\ last.a < u.m_length
           THEN ret = <<Returned(u.m_ptr + last.a * SizeOf(ArrayType))>>
           ELSE ret = <<AssertFailed>>

\* an index that would be in range for the array now held elsewhere was
\* rejected on the moved-from array
C24_Witness ==
    /\ last.op = "index"
    /\ last.a = 0
    /\ IsEmpty(slots[last.dst])
    /\ ret[1].assert
    /\ \E j \in Slots : slots[j].ty = ArrayType /\ slots[j].m_length > 0

\* C25: during a move assignment onto an Owning destination, once the
\* destination holds the source's resource, the resource the destination owned
\* before has been released: its objects destroyed, its block deallocated.
C25_ReleaseBeforeAcquire ==
    (/\ last.op \in {"assign_temp", "assign_swap", "move_assign"}
     /\ last.dst # last.src
     /\ Bool(pre[last.dst])
     /\ Bool(pre[last.src])
     /\ Fields(slots[last.dst]) = Fields(pre[last.src])) =>
        /\ heap[pre[last.dst].m_allocated_memory] = 0
        /\ objs[pre[last.dst].m_allocated_memory].n = 0

\* C26: a converting move to a base type keeps the recorded allocation
\* address and adjusts only the object pointer (by the offset of a second
\* base); the address the base-typed pointer later passes to deallocate is the
\* one allocate returned, not the object pointer.
C26_DeallocatesAllocation ==
    /\ (last.op = "convert_ctor" /\ Bool(pre[last.src])) =>
          /\ slots[last.dst].m_allocated_memory = pre[last.src].m_allocated_memory
          /\ slots[last.dst].m_ptr - pre[last.src].m_ptr =
                (IF slots[last.dst].ty = "B2" THEN SecondBaseOffset ELSE 0)
          /\ heap = preheap
    /\ (last.op = "destroy" /\ pre[last.dst].ty \in {"B1", "B2"}
        /\ Bool(pre[last.dst])) =>
          LET u == pre[last.dst]
              d == {k \in DOMAIN log : log[k].ev = "deallocate"}
          IN /\ Cardinality(d) = 1
             /\ \A k \in d : /\ log[k].p = u.m_allocated_memory
                              /\ log[k].p \in Addrs
                              /\ preheap[log[k].p] = u.m_allocator
                              /\ log[k].a = u.m_allocator
                              /\ log[k].t = "own"
             /\ heap[u.m_allocated_memory] = 0
             /\ ~ub

\* a UniquePtr<SecondBase> whose object pointer is not the allocation address
\* was destroyed and the allocation address was deallocated
C26_Witness ==
    /\ last.op = "destroy"
    /\ pre[last.dst].ty = "B2"
    /\ pre[last.dst].m_ptr = pre[last.dst].m_allocated_memory + SecondBaseOffset
    /\ Len(log) = 2
    /\ log[2].ev = "deallocate"
    /\ log[2].p = pre[last.dst].m_allocated_memory
    /\ log[2].p # pre[last.dst].m_ptr

\* the UniquePtr variables that own an allocation
Owners == {i \in Slots \cup {Tmp} : Live(slots[i]) /\ Bool(slots[i])}

\* C27: in every reachable state the allocations that are outstanding are
\* exactly those held by the live Owning UniquePtrs, each by one of them and
\* with the allocator it came from; no deallocate is ever given an address
\* that is not outstanding, and when no UniquePtr is left nothing is
\* outstanding.
C27_NoLeakNoDoubleFree ==
    /\ {p \in Addrs : heap[p] # 0} = {slots[i].m_allocated_memory : i \in Owners}
    /\ \A i \in Owners : heap[slots[i].m_allocated_memory] = slots[i].m_allocator
    /\ \A i, j \in Owners :
          slots[i].m_allocated_memory = slots[j].m_allocated_memory => i = j
    /\ \A k \in DOMAIN log : log[k].ev = "deallocate" => log[k].t = "own"
    /\ ~ub
    /\ (\A i \in Slots \cup {Tmp} : ~Live(slots[i])) => \A p \in Addrs : heap[p] = 0

\* the last UniquePtr, which owned an allocation, was destroyed and nothing
\* is outstanding
C27_Witness ==
    /\ last.op = "destroy"
    /\ Bool(pre[last.dst])
    /\ \E p \in Addrs : preheap[p] # 0
    /\ \A i \in Slots \cup {Tmp} : ~Live(slots[i])
    /\ \A p \in Addrs : heap[p] = 0

\* C28: for every element count a size_t holds, the size in bytes that
\* make_unique<T[]>(allocator, count) and StlAllocator<T>::allocate(count)
\* request from the allocator is at least count * sizeof(T).
C28_NoWraparound ==
    /\ (last.op = "make_array" /\ last.a # 0) =>
          /\ log[1].ev = "allocate"
          /\ log[1].n >= last.n * SizeOf(ArrayType)
    /\ (last.op = "stl_allocate" /\ last.n > 0) =>
          /\ log[1].ev = "allocate"
          /\ log[1].n >= last.n * SizeOf(StlSelf.ty)

====
